---------------------------- MODULE Spec2Model ----------------------------
(***************************************************************************)
(* niping: the ICMP echo engine (src/src/ping.rs), the ICMP and IPv4       *)
(* codecs it uses (src/src/packet/icmp.rs, src/src/packet/ip.rs) and the   *)
(* socket it talks to (src/src/socket/mod.rs).                             *)
(*                                                                         *)
(* Byte buffers are sequences of integers 0..255.  Rust index i of a       *)
(* slice is index i+1 of the sequence.  Option<T> is a sequence of length  *)
(* 0 (None) or 1 (Some(x)).                                                *)
(***************************************************************************)
EXTENDS Integers, Sequences, FiniteSets, TLC

(***************************************************************************)
(* Bounds of the model.                                                    *)
(***************************************************************************)
\* send attempts one run of ping_loop makes before the model stops it
MaxProbes == 2
\* recv calls one run of ping_loop makes before the model stops it
MaxRecvs == 4
\* the longest payload and byte buffer handed to the packet library on its own
MaxBytes == 3

(***************************************************************************)
(* Option<T>                                                               *)
(***************************************************************************)
None == << >>
Some(x) == << x >>
IsSome(o) == Len(o) = 1
Unwrap(o) == o[1]

\* buf[from..] of Rust (from is a 0-based offset, from <= len)
SliceFrom(buf, from) == SubSeq(buf, from + 1, Len(buf))
\* buf[..to] of Rust
SliceTo(buf, to) == SubSeq(buf, 1, to)
\* <[u8] as io::Write>::write: copies min(len) bytes of data to the start of
\* buf[at..] and leaves the rest alone
WriteAt(buf, at, data) ==
    LET n == IF Len(data) < Len(buf) - at THEN Len(data) ELSE Len(buf) - at
    IN  SubSeq(buf, 1, at) \o SubSeq(data, 1, n) \o SubSeq(buf, at + n + 1, Len(buf))
\* vec![0; n]
Zeroes(n) == SubSeq([i \in 1..n |-> 0], 1, n)

(***************************************************************************)
(* packet/icmp.rs                                                          *)
(***************************************************************************)
ICMP_MINIMUM_HEADER_SIZE == 8

\* the wire values of enum PacketType
EchoReply == 0
DestinationUnreachable == 3
EchoRequest == 8
TimeExceeded == 11
PacketTypeValues == {0, 3, 5, 8, 9, 10, 11, 12, 13, 14, 42, 43}

\* PacketType::new: Some(variant) for a listed value, None otherwise
PacketTypeNew(t) == IF t \in PacketTypeValues THEN Some(t) ELSE None

\* the sum of buf.chunks(2): a pair is a big-endian word, a lone last byte
\* is taken as it is.  The u32 accumulator cannot wrap below 65537 words.
RECURSIVE SumChunks(_, _)
SumChunks(buf, i) ==
    IF i > Len(buf) THEN 0
    ELSE IF i = Len(buf) THEN buf[i]
    ELSE (buf[i] * 256 + buf[i + 1]) + SumChunks(buf, i + 2)

\* while sum >> 16 != 0 { sum = (sum & 0xffff) + (sum >> 16) }
RECURSIVE Fold(_)
Fold(sum) ==
    IF sum \div 65536 # 0 THEN Fold((sum % 65536) + (sum \div 65536)) ELSE sum

\* !sum as u16
checksum(buf) == 65535 - (Fold(SumChunks(buf, 1)) % 65536)

\* IcmpBuilder { tp, code, seq, ident, payload }
IcmpBuilderNew == [tp |-> 0, code |-> 0, seq |-> 0, ident |-> 0, payload |-> None]

hint_size(q) ==
    ICMP_MINIMUM_HEADER_SIZE + (IF IsSome(q.payload) THEN Len(Unwrap(q.payload)) ELSE 0)

\* a builder that writes the identifier and the sequence number low byte first
IcmpBuildBodyLittleEndian(q, buf) ==
    LET b1 == [buf EXCEPT ![1] = q.tp, ![2] = q.code,
                          ![5] = q.ident % 256, ![6] = q.ident \div 256,
                          ![7] = q.seq % 256, ![8] = q.seq \div 256]
        b2 == IF IsSome(q.payload) THEN WriteAt(b1, 8, Unwrap(q.payload)) ELSE b1
    IN  [b2 EXCEPT ![3] = 0, ![4] = 0]

\* a builder that leaves the checksum bytes as the buffer held them before
\* the sum is taken
IcmpBuildBodyDirtyChecksum(q, buf) ==
    LET b1 == [buf EXCEPT ![1] = q.tp, ![2] = q.code,
                          ![5] = q.ident \div 256, ![6] = q.ident % 256,
                          ![7] = q.seq \div 256, ![8] = q.seq % 256]
    IN  IF IsSome(q.payload) THEN WriteAt(b1, 8, Unwrap(q.payload)) ELSE b1

\* the header bytes and the payload written, the checksum bytes zeroed
IcmpBuildBody(q, buf) ==
    LET b1 == [buf EXCEPT ![1] = q.tp, ![2] = q.code,
                          ![5] = q.ident \div 256, ![6] = q.ident % 256,
                          ![7] = q.seq \div 256, ![8] = q.seq % 256]
        b2 == IF IsSome(q.payload) THEN WriteAt(b1, 8, Unwrap(q.payload)) ELSE b1
    IN  [b2 EXCEPT ![3] = 0, ![4] = 0]

\* a builder that sums the whole buffer, the bytes after the packet included
IcmpBuildWholeBuffer(q, buf) ==
    IF Len(buf) < hint_size(q)
    THEN [ok |-> FALSE, err |-> "InvalidBufferSize", n |-> 0, buf |-> buf]
    ELSE LET b3 == IcmpBuildBody(q, buf)
             c  == checksum(b3)
         IN  [ok |-> TRUE, err |-> "", n |-> hint_size(q),
              buf |-> [b3 EXCEPT ![3] = c \div 256, ![4] = c % 256]]

\* IcmpBuilder::build: Err(InvalidBufferSize) for a short buffer, else the
\* buffer with the packet in its first hint_size bytes and Ok(hint_size)
IcmpBuild(q, buf) ==
    IF Len(buf) < hint_size(q)
    THEN [ok |-> FALSE, err |-> "InvalidBufferSize", n |-> 0, buf |-> buf]
    ELSE LET b3 == IcmpBuildBody(q, buf)
             c  == checksum(SliceTo(b3, hint_size(q)))
         IN  [ok |-> TRUE, err |-> "", n |-> hint_size(q),
              buf |-> [b3 EXCEPT ![3] = c \div 256, ![4] = c % 256]]

\* EchoRequest::new(ident, seq)
EchoRequestNew(ident, seq) ==
    [IcmpBuilderNew EXCEPT !.tp = EchoRequest, !.code = 0, !.seq = seq, !.ident = ident]

\* IcmpPacket::parse: the view is the buffer itself
IcmpParse(buf) ==
    IF Len(buf) < ICMP_MINIMUM_HEADER_SIZE
    THEN [ok |-> FALSE, err |-> "InvalidBufferSize", pkt |-> << >>]
    ELSE [ok |-> TRUE, err |-> "", pkt |-> buf]

IcmpTp(p) == p[1]
IcmpCode(p) == p[2]
IcmpIdent(p) == p[5] * 256 + p[6]
IcmpSeq(p) == p[7] * 256 + p[8]
IcmpPayload(p) == SliceFrom(p, 8)
is_checksum_correct(p) == checksum(p) = 0

(***************************************************************************)
(* packet/ip.rs                                                            *)
(***************************************************************************)
IPV4_VERSION == 4
IP_MINIMUM_HEADER_SIZE == 20

\* a parse that compares the buffer with the fixed header size only, never
\* with the header length the packet declares
IPV4ParseFixedHeaderOnly(buf) ==
    IF Len(buf) < IP_MINIMUM_HEADER_SIZE
    THEN [ok |-> FALSE, err |-> "InvalidBufferSize", pkt |-> << >>]
    ELSE IF buf[1] \div 16 # IPV4_VERSION
    THEN [ok |-> FALSE, err |-> "InvalidVersion", pkt |-> << >>]
    ELSE [ok |-> TRUE, err |-> "", pkt |-> buf]

\* IPV4Packet::parse
IPV4Parse(buf) ==
    IF Len(buf) < IP_MINIMUM_HEADER_SIZE
    THEN [ok |-> FALSE, err |-> "InvalidBufferSize", pkt |-> << >>]
    ELSE IF buf[1] \div 16 # IPV4_VERSION
    THEN [ok |-> FALSE, err |-> "InvalidVersion", pkt |-> << >>]
    ELSE IF Len(buf) < 4 * (buf[1] % 16)
    THEN [ok |-> FALSE, err |-> "InvalidHeaderSize", pkt |-> << >>]
    ELSE [ok |-> TRUE, err |-> "", pkt |-> buf]

IpTtl(p) == p[9]
IpProtocol(p) == p[10]
IpSourceIp(p) == SubSeq(p, 13, 16)
IpDestinationIp(p) == SubSeq(p, 17, 20)
\* IPV4Packet::payload: None when the header length nibble is 0
IpPayload(p) ==
    LET size == 4 * (p[1] % 16)
    IN  IF size = 0 THEN None ELSE Some(SliceFrom(p, size))


\* IPV4Builder::build.  buf[0] gets (4 << 4) + (payload.len() / 4) as u8 and
\* buf[2] gets (size << 8) as u8, which is 0 for every size.
IPV4Build(ttl, protocol, source, dst, payload, buf) ==
    LET header_size == 20
        size == header_size + Len(payload)
    IN  IF Len(buf) < size
        THEN [ok |-> FALSE, err |-> "InvalidBufferSize", n |-> 0, buf |-> buf]
        ELSE LET z  == Zeroes(size) \o SubSeq(buf, size + 1, Len(buf))
                 b1 == [z EXCEPT ![1] = (64 + ((Len(payload) \div 4) % 256)) % 256,
                                 ![3] = (size * 256) % 256,
                                 ![4] = size % 256,
                                 ![9] = ttl,
                                 ![10] = protocol]
                 b2 == WriteAt(b1, 12, source)
                 b3 == WriteAt(b2, 16, dst)
                 b4 == WriteAt(b3, header_size, payload)
             IN  [ok |-> TRUE, err |-> "", n |-> size, buf |-> b4]

\* enum Protocol
ProtocolICMP == 1
ProtocolIP == 4

(***************************************************************************)
(* Machine integers.  An overflowing += or -= panics in a debug build and  *)
(* wraps in a release build: both outcomes are kept.  A usize is kept as   *)
(* its representative modulo 2^64 that is nearest to zero, so usize::MAX   *)
(* is -1 and the test  == 0  is exact.                                     *)
(***************************************************************************)
U16_MAX == 65535

\* x += 1 on a u16
U16IncByTwo(x) == {[panic |-> FALSE, v |-> (x + 2) % (U16_MAX + 1)]}

U16Inc(x) ==
    IF x < U16_MAX
    THEN {[panic |-> FALSE, v |-> x + 1]}
    ELSE {[panic |-> TRUE, v |-> x], [panic |-> FALSE, v |-> 0]}

\* x -= 1 on a usize
UsizeDec(x) ==
    IF x # 0
    THEN {[panic |-> FALSE, v |-> x - 1]}
    ELSE {[panic |-> TRUE, v |-> x], [panic |-> FALSE, v |-> -1]}

(***************************************************************************)
(* ping.rs: the ownership test and one pass of the receive loop            *)
(***************************************************************************)
DATA_SIZE == 32
BUF_SIZE == 300

\* an ownership test that compares nothing of a reply: every packet but the
\* own request is taken for ours
own_packet_any_reply(req, repl) ==
    [panic |-> FALSE,
     own   |-> ~(/\ IcmpTp(repl) = EchoRequest
                 /\ req.payload = Some(IcmpPayload(repl))
                 /\ req.ident = IcmpIdent(repl))]

\* an ownership test without the arm for the engine's own request
own_packet_loopback_taken(req, repl) ==
    IF IcmpTp(repl) = EchoReply
    THEN [panic |-> FALSE, own |-> Unwrap(req.payload) = IcmpPayload(repl)]
    ELSE [panic |-> FALSE, own |-> TRUE]

\* own_packet(req, repl): own is the value returned, panic says that one of
\* the unwraps of the TimeExceeded arm failed instead
own_packet(req, repl) ==
    LET tp == PacketTypeNew(IcmpTp(repl))
    IN  IF tp = Some(EchoReply)
        THEN [panic |-> FALSE, own |-> Unwrap(req.payload) = IcmpPayload(repl)]
        ELSE IF tp = Some(TimeExceeded)
        THEN LET ip == IPV4Parse(IcmpPayload(repl))
             IN  IF ~ip.ok \/ ~IsSome(IpPayload(ip.pkt))
                 THEN [panic |-> TRUE, own |-> FALSE]
                 ELSE LET icmp == IcmpParse(Unwrap(IpPayload(ip.pkt)))
                      IN  IF ~icmp.ok
                          THEN [panic |-> TRUE, own |-> FALSE]
                          ELSE [panic |-> FALSE, own |-> IcmpIdent(icmp.pkt) = req.ident]
        ELSE IF /\ tp = Some(EchoRequest)
                /\ req.payload = Some(IcmpPayload(repl))
                /\ req.ident = IcmpIdent(repl)
        THEN [panic |-> FALSE, own |-> FALSE]
        ELSE [panic |-> FALSE, own |-> TRUE]

\* Result<PacketInfo, PingError>
Ok(info) == [tag |-> "Ok", err |-> "", info |-> Some(info)]
Err(tag, e) == [tag |-> tag, err |-> e, info |-> None]

\* the PacketInfo that Ping::recv builds from the parsed views
PacketInfo(ip, repl, received_bytes, time) ==
    [ip_source_ip   |-> IpSourceIp(ip),
     ip_ttl         |-> IpTtl(ip),
     icmp_seq       |-> IcmpSeq(repl),
     icmp_type      |-> IcmpTp(repl),
     received_bytes |-> received_bytes,
     time           |-> time]

\* The body of the loop of Ping::recv after a successful sock.recv that put
\* data in the buffer: "panic" when an unwrap fails, "break" with the result
\* when the packet is ours, "continue" when it is not.
RecvPass(req, data, time) ==
    LET ip == IPV4Parse(data)
    IN  IF ~ip.ok \/ ~IsSome(IpPayload(ip.pkt))
        THEN [step |-> "panic", res |-> None]
        ELSE LET repl == IcmpParse(Unwrap(IpPayload(ip.pkt)))
             IN  IF ~repl.ok
                 THEN [step |-> "panic", res |-> None]
                 ELSE LET o == own_packet(req, repl.pkt)
                      IN  IF o.panic
                          THEN [step |-> "panic", res |-> None]
                          ELSE IF o.own
                          THEN [step |-> "break",
                                res  |-> Some(Ok(PacketInfo(ip.pkt, repl.pkt, Len(data), time)))]
                          ELSE [step |-> "continue", res |-> None]

(***************************************************************************)
(* The socket (socket/mod.rs).  A raw ICMP socket hands the engine every   *)
(* ICMP datagram the host sees, so recv returns an I/O error or one of the *)
(* datagrams below, whatever was sent.                                     *)
(***************************************************************************)
IoErrors == {"Other", "WouldBlock"}

PeerIp == <<8, 8, 8, 8>>
GatewayIp == <<10, 0, 0, 1>>
LocalIp == <<192, 168, 0, 2>>
\* the identifier and payload of some other ping process on the host
Foreign == [ident |-> 7, payload |-> SubSeq([i \in 1..DATA_SIZE |-> 90], 1, DATA_SIZE)]

\* the bytes of an ICMP message as a host puts them on the wire
WireIcmp(q) == SliceTo(IcmpBuild(q, Zeroes(hint_size(q))).buf, hint_size(q))

\* an RFC 791 header without options (version 4, IHL 5) in front of payload
WireIPv4(ttl, source, dst, payload) ==
    <<69, 0, (20 + Len(payload)) \div 256, (20 + Len(payload)) % 256,
      0, 0, 0, 0, ttl, ProtocolICMP, 0, 0>> \o source \o dst \o payload

WireMessage(tp, ident, seq, payload) ==
    WireIcmp([tp |-> tp, code |-> 0, seq |-> seq, ident |-> ident, payload |-> payload])

\* a TimeExceeded message of a gateway: 4 unused bytes, then the IPv4 header
\* of the dropped datagram and the first n bytes of what it carried
WireTimeExceeded(ident, seq, n) ==
    WireMessage(TimeExceeded, 0, 0,
        Some(WireIPv4(1, LocalIp, PeerIp,
                 SliceTo(WireMessage(EchoRequest, ident, seq, None), n))))

\* what TestSocket::emulate_recv answers to the request q it saw last
EmulateRecv(q) ==
    LET icmp == IcmpBuild([IcmpBuilderNew EXCEPT !.ident = q.ident, !.payload = q.payload],
                          Zeroes(1024))
        ip   == IPV4Build(0, ProtocolICMP, <<0, 0, 0, 0>>, <<127, 0, 0, 1>>,
                          SliceTo(icmp.buf, icmp.n), Zeroes(BUF_SIZE))
    IN  SliceTo(ip.buf, ip.n)

\* the reply of the peer to the probe with sequence number seq
MatchingReply(q, seq) ==
    WireIPv4(56, PeerIp, LocalIp, WireMessage(EchoReply, q.ident, seq, q.payload))
\* an EchoReply to some other process (other identifier, other payload)
ForeignReply(q) ==
    WireIPv4(56, PeerIp, LocalIp,
             WireMessage(EchoReply, Foreign.ident, q.seq, Some(Foreign.payload)))
\* the engine's own request, looped back by the kernel
OwnRequest(q) == WireIPv4(64, LocalIp, LocalIp, WireIcmp(q))
\* a request of some other host to this one
ForeignRequest(q) ==
    WireIPv4(64, PeerIp, LocalIp,
             WireMessage(EchoRequest, Foreign.ident, 9, Some(Foreign.payload)))
OwnTimeExceeded(q) == WireIPv4(64, GatewayIp, LocalIp, WireTimeExceeded(q.ident, q.seq, 8))
ForeignTimeExceeded(q) ==
    WireIPv4(64, GatewayIp, LocalIp, WireTimeExceeded(Foreign.ident, 5, 8))
\* a TimeExceeded that embeds only 4 bytes of the dropped datagram
CutTimeExceeded(q) == WireIPv4(64, GatewayIp, LocalIp, WireTimeExceeded(q.ident, q.seq, 4))
ForeignUnreachable(q) ==
    WireIPv4(64, GatewayIp, LocalIp,
             WireMessage(DestinationUnreachable, 0, 0,
                 Some(WireIPv4(1, LocalIp, PeerIp, <<17, 0, 0, 0, 0, 53, 0, 53>>))))
\* datagrams that are no IPv4 + ICMP at all
ShortDatagram == <<69, 0, 0, 10, 0, 0, 0, 0, 64, 1>>
Version6Datagram == [WireIPv4(64, PeerIp, LocalIp, Zeroes(8)) EXCEPT ![1] = 96 + 5]
LongHeaderDatagram == [WireIPv4(64, PeerIp, LocalIp, Zeroes(8)) EXCEPT ![1] = 64 + 15]
ZeroHeaderDatagram == [WireIPv4(64, PeerIp, LocalIp, Zeroes(8)) EXCEPT ![1] = 64]
ShortIcmpDatagram == WireIPv4(64, PeerIp, LocalIp, <<0, 0, 0, 0>>)

Malformed ==
    {ShortDatagram, Version6Datagram, LongHeaderDatagram, ZeroHeaderDatagram,
     ShortIcmpDatagram}

\* the datagrams recv may return while the request template is q
DatagramsFor(q) ==
    {MatchingReply(q, q.seq), ForeignReply(q), OwnRequest(q), ForeignRequest(q),
     OwnTimeExceeded(q), ForeignTimeExceeded(q), CutTimeExceeded(q),
     ForeignUnreachable(q), EmulateRecv(q)}
    \cup {MatchingReply(q, s) : s \in 1..(q.seq - 1)}
    \cup Malformed

(***************************************************************************)
(* ping.rs: Ping::ping_loop                                                *)
(***************************************************************************)
\* uniq_ident() and uniq_payload() draw random values; the engine treats all
\* values alike, so one identifier with distinct high and low bytes and one
\* payload of distinct bytes stand for them
Templates ==
    {[ident |-> 4660, payload |-> SubSeq([i \in 1..DATA_SIZE |-> i], 1, DATA_SIZE)]}

\* DatagramsFor, worked out once for every template the engine can hold
DatagramTable ==
    {<<q, DatagramsFor(q)>> :
        q \in {[EchoRequestNew(t.ident, s) EXCEPT !.payload = Some(t.payload)] :
                   t \in Templates, s \in 1..MaxProbes}}
Datagrams(q) == (CHOOSE e \in DatagramTable : e[1] = q)[2]

VARIABLES
    pc,            \* where ping_loop stands
    ping,          \* the Ping struct: packets_limit
    req,           \* the request template (IcmpBuilder)
    packets_limit, \* the local copy of the budget that the loop decrements
    buf,           \* the part of buf last written: the request or a datagram
    now,           \* the Instant taken by Ping::recv
    clock,         \* the monotonic clock, one tick for each socket call
    info,          \* the result of Ping::ping that is not yet sent
    chan,          \* the results sent on the channel so far
    tx_open,       \* the Sender is alive
    rx_open,       \* the Receiver is alive
    terminated,    \* the AtomicBool handed to ping_loop
    flag_stored,   \* the other holder of the flag has stored to it
    oplog,         \* the calls made on the socket, in order
    spc,           \* where Statistics::run stands
    transmitted,   \* its counter of packets
    received,      \* its counter of echo replies
    rtt,           \* its Vec of round-trip times
    consumed,      \* how many results packet.recv() has handed to it
    summary,       \* the figures of the statistics block once printed
    codec,         \* a call of the packet library made on its own
    sent           \* the sequence numbers handed to send_to so far

\* the state of the engine and of the channel
engine_vars == <<pc, ping, req, packets_limit, buf, now, clock, info, chan,
                 tx_open, rx_open, terminated, flag_stored, oplog>>

\* the state of the aggregator
stats_vars == <<spc, transmitted, received, rtt, consumed, summary>>

vars == <<pc, ping, req, packets_limit, buf, now, clock, info, chan, tx_open,
          rx_open, terminated, flag_stored, oplog, stats_vars, codec, sent>>

\* Settings::packets_limit as the caller gives it
Limits == {None, Some(0), Some(1), Some(2)}

SocketOp(op, seq, ok, err) == [op |-> op, seq |-> seq, ok |-> ok, err |-> err]
Sends == SelectSeq(oplog, LAMBDA e : e.op = "send_to")
Recvs == SelectSeq(oplog, LAMBDA e : e.op = "recv")

\* a ping that drops the error of send_to and waits for a reply all the same
SendErrorIgnored(r) == [pc |-> "recv", info |-> None]

\* self.send_to(..).map_err(|err| PingError::Send(err))? in Ping::ping: an
\* error leaves ping with Err(Send), success goes on to self.recv
SendResult(r) ==
    IF r.ok
    THEN [pc |-> "recv", info |-> None]
    ELSE [pc |-> "emit", info |-> Some(Err("Send", r.err))]

\* a recv loop that reads again after an error of the socket
RecvErrorRetried(e) == [pc |-> "recv", info |-> None]

\* self.sock.recv(..).map_err(|err| PingError::Recv(err))? in Ping::recv: an
\* error leaves the loop and recv with Err(Recv)
RecvError(e) == [pc |-> "emit", info |-> Some(Err("Recv", e))]

\* a loop that reports replies only
ChannelSendOkOnly(c, r) == IF r.tag = "Ok" THEN Append(c, r) ELSE c

\* stats.send(info) on the unbounded channel
ChannelSend(c, r) == Append(c, r)

\* The sequence numbers that went to send_to, kept as the runs of consecutive
\* values in the order they were sent, with the number of sends and whether
\* some value went out twice.
NothingSent == [n |-> 0, runs |-> << >>, repeated |-> FALSE]

SeqSent(runs, v) == \E i \in DOMAIN runs : runs[i].lo <= v /\ v <= runs[i].hi

SeqRecord(s, v) ==
    [n        |-> s.n + 1,
     repeated |-> s.repeated \/ SeqSent(s.runs, v),
     runs     |-> IF SeqSent(s.runs, v) THEN s.runs
                  ELSE IF s.runs # << >> /\ s.runs[Len(s.runs)].hi + 1 = v
                  THEN [s.runs EXCEPT ![Len(s.runs)].hi = v]
                  ELSE Append(s.runs, [lo |-> v, hi |-> v])]

\* the state on entry to the while loop of ping_loop
EngineInit ==
    /\ pc = "loop"
    /\ \E l \in Limits : ping = [packets_limit |-> l] /\ packets_limit = l
    /\ \E t \in Templates :
           req = [EchoRequestNew(t.ident, 0) EXCEPT !.payload = Some(t.payload)]
    /\ buf = << >>
    /\ now = 0
    /\ clock = 0
    /\ info = None
    /\ chan = << >>
    /\ tx_open = TRUE
    /\ rx_open = TRUE
    /\ terminated \in BOOLEAN
    /\ flag_stored = FALSE
    /\ oplog = << >>
    /\ sent = NothingSent

\* the locals of Statistics::run before its receive loop
StatsInit ==
    /\ spc = "recv"
    /\ transmitted = 0
    /\ received = 0
    /\ rtt = << >>
    /\ consumed = 0
    /\ summary = None

\* no call of the packet library outside the engine
CodecIdle ==
    [op |-> "idle", step |-> "done", q |-> IcmpBuilderNew, buf |-> << >>,
     ok |-> TRUE, err |-> "", n |-> 0, out |-> << >>, tampered |-> FALSE,
     pkt |-> None, correct |-> FALSE, sum |-> 0]

\* the engine and the aggregator at their start
Init ==
    /\ EngineInit
    /\ StatsInit
    /\ codec = CodecIdle

\* while terminated.load(SeqCst): leave the loop, or req.seq += 1 and the
\* first line of Ping::ping, req.build(&mut buf).unwrap()
LoopHead ==
    /\ pc = "loop"
    /\ terminated => req.seq < MaxProbes
    /\ IF ~terminated
       THEN /\ pc' = "done"
            /\ tx_open' = FALSE
            /\ UNCHANGED <<req, buf>>
       ELSE \E inc \in U16Inc(req.seq) :
              IF inc.panic
              THEN /\ pc' = "panicked"
                   /\ tx_open' = FALSE
                   /\ UNCHANGED <<req, buf>>
              ELSE LET q == [req EXCEPT !.seq = inc.v]
                       b == IcmpBuild(q, Zeroes(BUF_SIZE))
                   IN  /\ req' = q
                       /\ tx_open' = b.ok
                       /\ pc' = IF b.ok THEN "send" ELSE "panicked"
                       /\ buf' = IF b.ok THEN SliceTo(b.buf, b.n) ELSE buf
    /\ UNCHANGED <<ping, packets_limit, now, clock, info, chan, rx_open,
                   terminated, flag_stored, oplog>>
    /\ UNCHANGED <<stats_vars, codec, sent>>

\* self.send_to(&buf[..size]): the socket takes the packet or fails; on
\* success Ping::recv starts and takes its Instant
SendTo ==
    /\ pc = "send"
    /\ clock' = clock + 1
    /\ \E r \in {[ok |-> TRUE, err |-> ""]} \cup {[ok |-> FALSE, err |-> e] : e \in IoErrors} :
         /\ oplog' = Append(oplog, SocketOp("send_to", IcmpSeq(buf), r.ok, r.err))
         /\ pc' = SendResult(r).pc
         /\ info' = SendResult(r).info
         /\ now' = IF pc' = "recv" THEN clock' ELSE now
    /\ sent' = SeqRecord(sent, IcmpSeq(buf))
    /\ UNCHANGED <<ping, req, packets_limit, buf, chan, tx_open, rx_open,
                   terminated, flag_stored>>
    /\ UNCHANGED <<stats_vars, codec>>

\* one pass of the loop of Ping::recv: the recv call fails, or it returns a
\* datagram that is parsed and tested
Recv ==
    /\ pc = "recv"
    /\ Len(Recvs) < MaxRecvs
    /\ clock' = clock + 1
    /\ \/ \E e \in IoErrors :
            /\ oplog' = Append(oplog, SocketOp("recv", req.seq, FALSE, e))
            /\ info' = RecvError(e).info
            /\ pc' = RecvError(e).pc
            /\ UNCHANGED <<buf, tx_open>>
       \/ \E d \in Datagrams(req) :
            LET data == SliceTo(d, IF Len(d) < BUF_SIZE THEN Len(d) ELSE BUF_SIZE)
                r    == RecvPass(req, data, clock' - now)
            IN  /\ oplog' = Append(oplog, SocketOp("recv", req.seq, TRUE, ""))
                /\ buf' = data
                /\ info' = r.res
                /\ pc' = CASE r.step = "panic" -> "panicked"
                           [] r.step = "break" -> "emit"
                           [] OTHER -> "recv"
                /\ tx_open' = (r.step # "panic")
    /\ UNCHANGED <<ping, req, packets_limit, now, chan, rx_open, terminated,
                   flag_stored>>
    /\ UNCHANGED <<stats_vars, codec, sent>>

\* stats.send(info).unwrap() and the budget: *limit -= 1, break at 0
Emit ==
    /\ pc = "emit"
    /\ IF ~rx_open
       THEN /\ pc' = "panicked"
            /\ tx_open' = FALSE
            /\ UNCHANGED <<chan, info, packets_limit>>
       ELSE /\ chan' = ChannelSend(chan, Unwrap(info))
            /\ info' = None
            /\ IF IsSome(packets_limit)
               THEN \E dec \in UsizeDec(Unwrap(packets_limit)) :
                      IF dec.panic
                      THEN /\ pc' = "panicked"
                           /\ tx_open' = FALSE
                           /\ UNCHANGED packets_limit
                      ELSE /\ packets_limit' = Some(dec.v)
                           /\ pc' = IF dec.v = 0 THEN "done" ELSE "sleep"
                           /\ tx_open' = (dec.v # 0)
               ELSE /\ pc' = "sleep"
                    /\ UNCHANGED <<packets_limit, tx_open>>
    /\ UNCHANGED <<ping, req, buf, now, clock, rx_open, terminated, flag_stored,
                   oplog>>
    /\ UNCHANGED <<stats_vars, codec, sent>>

\* thread::sleep(self.send_interval)
Sleep ==
    /\ pc = "sleep"
    /\ pc' = "loop"
    /\ UNCHANGED <<ping, req, packets_limit, buf, now, clock, info, chan, tx_open,
                   rx_open, terminated, flag_stored, oplog>>
    /\ UNCHANGED <<stats_vars, codec, sent>>

\* The holder of the other Arc stores to the flag: term.store(false) of the
\* test harness, stop.store(true) of the ctrlc handler.  Either holder stores
\* one value only, so a later store changes nothing.
StoreFlag ==
    /\ ~flag_stored
    /\ \E v \in BOOLEAN : terminated' = v
    /\ flag_stored' = TRUE
    /\ UNCHANGED <<pc, ping, req, packets_limit, buf, now, clock, info, chan,
                   tx_open, rx_open, oplog>>
    /\ UNCHANGED <<stats_vars, codec, sent>>

Next == LoopHead \/ SendTo \/ Recv \/ Emit \/ Sleep \/ StoreFlag

Spec == Init /\ [][Next]_vars

(***************************************************************************)
(* stats.rs: Statistics::run, the consumer of the channel                  *)
(***************************************************************************)
\* an aggregator that keeps a round-trip time for echo replies only
RttPushReplyOnly(samples, i) ==
    IF i.icmp_type = EchoReply THEN Append(samples, i.time) ELSE samples

\* rtt.push(info.time)
RttPush(samples, i) == Append(samples, i.time)

RECURSIVE SeqSum(_)
SeqSum(s) == IF s = << >> THEN 0 ELSE s[1] + SeqSum(SubSeq(s, 2, Len(s)))
SeqMin(s) == CHOOSE x \in {s[i] : i \in DOMAIN s} : \A j \in DOMAIN s : x <= s[j]
SeqMax(s) == CHOOSE x \in {s[i] : i \in DOMAIN s} : \A j \in DOMAIN s : x >= s[j]

\* while let Ok(Ok(info)) = packet.recv() with a result waiting: an Ok is
\* counted and the loop goes round, an Err is taken off the channel and ends
\* the loop
StatsConsume ==
    /\ spc = "recv"
    /\ consumed < Len(chan)
    /\ consumed' = consumed + 1
    /\ LET r == chan[consumed + 1]
       IN  IF r.tag = "Ok"
           THEN /\ transmitted' = transmitted + 1
                /\ rtt' = RttPush(rtt, Unwrap(r.info))
                /\ received' = IF Unwrap(r.info).icmp_type = EchoReply
                               THEN received + 1 ELSE received
                /\ spc' = "recv"
           ELSE /\ spc' = "summary"
                /\ UNCHANGED <<transmitted, rtt, received>>
    /\ UNCHANGED <<pc, ping, req, packets_limit, buf, now, clock, info, chan,
                   tx_open, rx_open, terminated, flag_stored, oplog, summary, codec,
                   sent>>

\* packet.recv() on an empty channel whose Sender is gone returns Err: the
\* loop ends (with a Sender alive the call blocks)
StatsClosed ==
    /\ spc = "recv"
    /\ consumed = Len(chan)
    /\ ~tx_open
    /\ spc' = "summary"
    /\ UNCHANGED <<pc, ping, req, packets_limit, buf, now, clock, info, chan,
                   tx_open, rx_open, terminated, flag_stored, oplog, transmitted,
                   received, rtt, consumed, summary, codec, sent>>

\* the rest of Statistics::run: rtt.iter().min().unwrap() panics on an empty
\* Vec, else the statistics block is printed; either way run is left and the
\* Receiver is dropped
StatsSummary ==
    /\ spc = "summary"
    /\ IF rtt = << >>
       THEN /\ spc' = "panicked"
            /\ summary' = None
       ELSE /\ spc' = "done"
            /\ summary' = Some([transmitted |-> transmitted,
                                received    |-> received,
                                rtt_min     |-> SeqMin(rtt),
                                rtt_max     |-> SeqMax(rtt),
                                rtt_avg     |-> SeqSum(rtt) \div Len(rtt)])
    /\ rx_open' = FALSE
    /\ UNCHANGED <<pc, ping, req, packets_limit, buf, now, clock, info, chan,
                   tx_open, terminated, flag_stored, oplog, transmitted,
                   received, rtt, consumed, codec, sent>>

\* the engine thread and the aggregator thread on the two ends of the channel
SessionNext ==
    \/ LoopHead \/ SendTo \/ Recv \/ Emit \/ Sleep \/ StoreFlag
    \/ StatsConsume \/ StatsClosed \/ StatsSummary

\* both threads are scheduled as long as they can take a step; nothing
\* obliges the other holder of the flag to store
Session ==
    /\ Init
    /\ [][SessionNext]_vars
    /\ WF_vars(LoopHead) /\ WF_vars(SendTo) /\ WF_vars(Recv)
    /\ WF_vars(Emit) /\ WF_vars(Sleep)
    /\ WF_vars(StatsConsume) /\ WF_vars(StatsClosed) /\ WF_vars(StatsSummary)

(***************************************************************************)
(* packet/icmp.rs called on its own: build, parse, checksum                *)
(***************************************************************************)
\* byte values that stand for all: zero, a low one, the top one
SampleBytes == {0, 1, 255}

\* every byte string over SampleBytes of length at most n
ByteSeqs(n) == UNION {[1..k -> SampleBytes] : k \in 0..n}

\* the builders a caller can make with IcmpBuilder::new and the with_ methods,
\* with payloads of at most n bytes
Builders(n) ==
    {[tp |-> t, code |-> c, seq |-> sq, ident |-> id, payload |-> p] :
        t \in {EchoRequest, 20, 255}, c \in {0, 3},
        sq \in {24, 65280}, id \in {2020, 65535},
        p \in {None} \cup {Some(SubSeq(b, 1, Len(b))) : b \in ByteSeqs(n)}}

\* what a buffer holds at index i before build: zeroes, 0xff everywhere, or
\* the bytes an earlier use left, different at every index
Fill(kind, i) ==
    CASE kind = "zeroed" -> 0
      [] kind = "ones"   -> 255
      [] kind = "used"   -> i % 256

\* the buffers handed to build for q: too short ones, the exact size and
\* longer ones
BuffersFor(q) ==
    {SubSeq([i \in 1..n |-> Fill(kind, i)], 1, n) :
        n \in {0, 3, hint_size(q) - 1, hint_size(q), hint_size(q) + 1, hint_size(q) + 3},
        kind \in {"zeroed", "ones", "used"}}

\* the repository's own test vector for checksum
ChecksumTestVector == <<0, 0, 0, 1, 2, 3, 4>>

\* the header of the repository's tests for packet/ip.rs
IpTestVector ==
    <<64, 0, 0, 60, 35, 24, 0, 0, 56, 1, 230, 134, 127, 0, 0, 1, 192, 168, 100, 10>>

\* the buffers handed to IPV4Packet::parse: every length around the fixed
\* header size and around the header lengths 4 * IHL, first bytes with
\* version 4 and others, header lengths from 0 to 15
IpParseBuffers ==
    {SubSeq([i \in 1..n |-> IF i = 1 THEN b0 ELSE Fill(kind, i)], 1, n) :
        n \in {0, 1, 19, 20, 21, 23, 24, 59, 60, 61},
        b0 \in {64, 69, 70, 79, 101, 5, 245, 85, 0, 255},
        kind \in {"zeroed", "ones", "used"}}
    \cup {SubSeq(IpTestVector, 1, k) : k \in {8, 20}}
    \cup {[IpTestVector EXCEPT ![1] = 96], [IpTestVector EXCEPT ![1] = 70]}

\* IPV4Builder::new(ttl, p, source, dst, payload) with payloads of at most n
\* bytes, and one of a whole header's length
IpBuilders(n) ==
    {[ttl |-> t, protocol |-> pr, source |-> src, dst |-> d, payload |-> x] :
        t \in {0, 56, 255}, pr \in {ProtocolICMP, ProtocolIP},
        src \in {<<127, 0, 0, 1>>, <<255, 255, 255, 255>>},
        d \in {<<192, 168, 100, 10>>, <<0, 0, 0, 0>>},
        x \in {SubSeq(b, 1, Len(b)) : b \in ByteSeqs(n)} \cup {IpTestVector}}

\* the buffers handed to IPV4Builder::build for q
IpBuffersFor(q) ==
    {SubSeq([i \in 1..n |-> Fill(kind, i)], 1, n) :
        n \in {0, 19 + Len(q.payload), 20 + Len(q.payload), 23 + Len(q.payload)},
        kind \in {"zeroed", "ones", "used"}}

\* the calls a caller can make, on payloads and buffers bounded by n
CodecJobs(n) ==
    UNION {{[CodecIdle EXCEPT !.op = "build", !.step = "start", !.q = q, !.buf = b] :
                b \in BuffersFor(q)} : q \in Builders(n)}
    \cup {[CodecIdle EXCEPT !.op = "checksum", !.step = "start", !.buf = SubSeq(b, 1, Len(b))] :
        b \in ByteSeqs(n + 1) \cup {ChecksumTestVector}}

\* the calls a caller can make of packet/ip.rs
IpCodecJob(c, n) ==
    \/ \E b \in IpParseBuffers :
         c = [CodecIdle EXCEPT !.op = "ip_parse", !.step = "start", !.buf = b]
    \/ \E q \in IpBuilders(n) : \E b \in IpBuffersFor(q) :
         c = [CodecIdle EXCEPT !.op = "ip_build", !.step = "start", !.q = q, !.buf = b]

\* a caller of the packet library; the engine has not started
CodecInit ==
    /\ EngineInit
    /\ ping.packets_limit = None
    /\ terminated
    /\ StatsInit
    /\ \/ codec \in CodecJobs(MaxBytes)
       \/ IpCodecJob(codec, MaxBytes)

\* builder.build(&mut buf)
CodecBuild ==
    /\ codec.op = "build" /\ codec.step = "start"
    /\ LET r == IcmpBuild(codec.q, codec.buf)
       IN  codec' = [codec EXCEPT !.step = "built", !.ok = r.ok, !.err = r.err,
                                  !.n = r.n, !.out = r.buf]
    /\ UNCHANGED <<engine_vars, stats_vars, sent>>

\* one of the two checksum bytes of the built packet gets another value
CodecTamper ==
    /\ codec.op = "build" /\ codec.step = "built" /\ codec.ok /\ ~codec.tampered
    /\ \E at \in {3, 4} : \E v \in SampleBytes \cup {(codec.out[at] + 1) % 256} :
         /\ v # codec.out[at]
         /\ codec' = [codec EXCEPT !.out = [codec.out EXCEPT ![at] = v],
                                   !.tampered = TRUE]
    /\ UNCHANGED <<engine_vars, stats_vars, sent>>

\* IcmpPacket::parse(&buf[..n]) and is_checksum_correct on the view
CodecParse ==
    /\ codec.op = "build" /\ codec.step = "built" /\ codec.ok
    /\ LET p == IcmpParse(SliceTo(codec.out, codec.n))
       IN  codec' = [codec EXCEPT !.step = "parsed",
                                  !.pkt = IF p.ok THEN Some(p.pkt) ELSE None,
                                  !.correct = p.ok /\ is_checksum_correct(p.pkt)]
    /\ UNCHANGED <<engine_vars, stats_vars, sent>>

\* checksum(&buf)
CodecChecksum ==
    /\ codec.op = "checksum" /\ codec.step = "start"
    /\ codec' = [codec EXCEPT !.step = "summed", !.sum = checksum(codec.buf)]
    /\ UNCHANGED <<engine_vars, stats_vars, sent>>

\* IPV4Packet::parse(&buf)
CodecIpParse ==
    /\ codec.op = "ip_parse" /\ codec.step = "start"
    /\ LET r == IPV4Parse(codec.buf)
       IN  codec' = [codec EXCEPT !.step = "parsed", !.ok = r.ok, !.err = r.err,
                                  !.pkt = IF r.ok THEN Some(r.pkt) ELSE None]
    /\ UNCHANGED <<engine_vars, stats_vars, sent>>

\* IPV4Builder::new(..).build(&mut buf)
CodecIpBuild ==
    /\ codec.op = "ip_build" /\ codec.step = "start"
    /\ LET r == IPV4Build(codec.q.ttl, codec.q.protocol, codec.q.source, codec.q.dst,
                          codec.q.payload, codec.buf)
       IN  codec' = [codec EXCEPT !.step = "built", !.ok = r.ok, !.err = r.err,
                                  !.n = r.n, !.out = r.buf]
    /\ UNCHANGED <<engine_vars, stats_vars, sent>>

\* IPV4Packet::parse(&buf[..size]) of what build wrote
CodecIpReparse ==
    /\ codec.op = "ip_build" /\ codec.step = "built" /\ codec.ok
    /\ LET r == IPV4Parse(SliceTo(codec.out, codec.n))
       IN  codec' = [codec EXCEPT !.step = "parsed", !.ok = r.ok, !.err = r.err,
                                  !.pkt = IF r.ok THEN Some(r.pkt) ELSE None]
    /\ UNCHANGED <<engine_vars, stats_vars, sent>>

CodecNext ==
    \/ CodecBuild \/ CodecTamper \/ CodecParse \/ CodecChecksum
    \/ CodecIpParse \/ CodecIpBuild \/ CodecIpReparse

CodecSpec == CodecInit /\ [][CodecNext]_vars

(***************************************************************************)
(* A session without a budget that is left running: only the sequence      *)
(* counter and the numbers that went to send_to are followed, the socket's *)
(* answers and the results on the channel are not recorded.                *)
(***************************************************************************)
\* iterations of ping_loop a long run makes before the model stops it
MaxLongRun == 65537

\* ping_loop started with the flag true and packets_limit None
LongRunInit ==
    /\ EngineInit
    /\ ping.packets_limit = None
    /\ terminated
    /\ StatsInit
    /\ codec = CodecIdle

\* one iteration of the loop: req.seq += 1, the request is built and handed
\* to send_to, the result goes to the channel, the engine sleeps and is back
\* at the loop head
ProbeCycle ==
    /\ pc = "loop"
    /\ terminated
    /\ sent.n < MaxLongRun
    /\ \E inc \in U16Inc(req.seq) :
         IF inc.panic
         THEN /\ pc' = "panicked"
              /\ tx_open' = FALSE
              /\ UNCHANGED <<req, sent>>
         ELSE LET q == [req EXCEPT !.seq = inc.v]
                  b == IcmpBuild(q, Zeroes(BUF_SIZE))
              IN  /\ req' = q
                  /\ sent' = SeqRecord(sent, IcmpSeq(SliceTo(b.buf, b.n)))
                  /\ UNCHANGED <<pc, tx_open>>
    /\ UNCHANGED <<ping, packets_limit, buf, now, clock, info, chan, rx_open,
                   terminated, flag_stored, oplog>>
    /\ UNCHANGED <<stats_vars, codec>>

LongRunNext == ProbeCycle

LongRun == LongRunInit /\ [][LongRunNext]_vars

-----------------------------------------------------------------------------
\* Observations of a run

Last(s) == s[Len(s)]

\* the probe (1-based iteration) the k-th socket call belongs to
ProbeOf(k) == Len(SelectSeq(SubSeq(oplog, 1, k), LAMBDA e : e.op = "send_to"))

\* the result of the i-th iteration: on the channel, or built and not yet sent
ResultOf(i) ==
    IF i <= Len(chan) THEN Some(chan[i])
    ELSE IF i = Len(chan) + 1 THEN info
    ELSE None

IsOk(r) == r.tag = "Ok"

-----------------------------------------------------------------------------
\* C1: the icmp_seq values of the Ok results on the channel are strictly
\* increasing in emission order, and the Ok result of the i-th probe carries
\* icmp_seq i (so the values are 1, 2, 3, ... less the probes that gave Err),
\* whatever the socket delivers.
C1_OkSeqStrictlyIncreasing ==
    /\ \A i, j \in DOMAIN chan :
         (i < j /\ IsOk(chan[i]) /\ IsOk(chan[j]))
            => Unwrap(chan[i].info).icmp_seq < Unwrap(chan[j].info).icmp_seq
    /\ \A i \in DOMAIN chan :
         IsOk(chan[i]) => Unwrap(chan[i].info).icmp_seq = i

\* C2: an Ok result whose icmp_type is EchoReply carries as icmp_seq the
\* sequence number of the probe sent in the same iteration.
C2_EchoReplySeqIsProbeSeq ==
    (pc = "emit" /\ IsSome(info) /\ IsOk(Unwrap(info))
        /\ Unwrap(Unwrap(info).info).icmp_type = EchoReply)
      => /\ Unwrap(Unwrap(info).info).icmp_seq = Last(Sends).seq
         /\ Unwrap(Unwrap(info).info).icmp_seq = req.seq

\* the loop has left (break, flag or panic) with the budget used up or the
\* flag telling it to leave
StoppedByBudgetOrFlag ==
    pc \in {"done", "panicked"}
      => \/ IsSome(ping.packets_limit) /\ Unwrap(ping.packets_limit) <= Len(Sends)
         \/ ~terminated

\* the k-th socket call failed and the iteration it belongs to has handled it:
\* the iteration's one result is the error, no socket call follows in the
\* iteration, and the next socket call (if any) is the send of the next probe
FailureEndsIteration(k, tag) ==
    LET i == ProbeOf(k)
    IN  /\ ResultOf(i) = Some(Err(tag, oplog[k].err))
        /\ IF k < Len(oplog)
           THEN /\ oplog[k + 1].op = "send_to"
                /\ oplog[k + 1].seq = oplog[k].seq + 1
                /\ i <= Len(chan)
           ELSE /\ pc \in {"emit", "sleep", "loop", "send", "done", "panicked"}
                /\ (pc = "emit") = (i = Len(chan) + 1)
                /\ StoppedByBudgetOrFlag

\* C3: when send_to fails for a probe, the iteration emits exactly one
\* Err(Send(e)) with the socket's error, calls recv not once, and the loop goes
\* on to send the next probe (it stops only on the budget or the flag).
C3_SendFailureOneErrNoRecv ==
    /\ Len(chan) <= Len(Sends)
    /\ \A k \in DOMAIN oplog :
         (oplog[k].op = "send_to" /\ ~oplog[k].ok) => FailureEndsIteration(k, "Send")

\* a failed send_to whose Err(Send) is on the channel and which is followed by
\* the send of the next probe
C3_Witness ==
    \E k \in DOMAIN oplog :
      /\ oplog[k].op = "send_to" /\ ~oplog[k].ok
      /\ k < Len(oplog) /\ oplog[k + 1].op = "send_to"
      /\ chan[ProbeOf(k)] = Err("Send", oplog[k].err)

\* C4: when recv of the socket fails, the iteration emits exactly one
\* Err(Recv(e)) with the socket's error, calls recv no more in that iteration,
\* and the next socket call is the send_to of the next probe.
C4_RecvFailureOneErrNoRetry ==
    /\ Len(chan) <= Len(Sends)
    /\ \A k \in DOMAIN oplog :
         (oplog[k].op = "recv" /\ ~oplog[k].ok) => FailureEndsIteration(k, "Recv")

\* a failed recv that came after a skipped datagram, whose Err(Recv) is on the
\* channel and which is followed by the send of the next probe
C4_Witness ==
    \E k \in DOMAIN oplog :
      /\ oplog[k].op = "recv" /\ ~oplog[k].ok
      /\ k > 1 /\ oplog[k - 1].op = "recv" /\ oplog[k - 1].ok
      /\ k < Len(oplog) /\ oplog[k + 1].op = "send_to"
      /\ chan[ProbeOf(k)] = Err("Recv", oplog[k].err)

\* the bytes do not parse as an IPv4 header, or the IP payload does not parse
\* as an ICMP header
Unparsable(data) ==
    \/ ~IPV4Parse(data).ok
    \/ ~IsSome(IpPayload(IPV4Parse(data).pkt))
    \/ ~IcmpParse(Unwrap(IpPayload(IPV4Parse(data).pkt))).ok

\* the last socket call was a recv that returned a datagram, now in buf
JustReceived ==
    /\ oplog # << >>
    /\ Last(oplog).op = "recv" /\ Last(oplog).ok
    /\ pc # "send"

\* C5: a datagram returned by recv that does not parse as an IPv4 header or
\* whose IP payload does not parse as an ICMP header is skipped: no result, no
\* panic, no stop, and the engine is about to call recv again in the same
\* iteration.
C5_UnparsableDatagramSkipped ==
    (JustReceived /\ Unparsable(buf))
      => /\ pc = "recv"
         /\ info = None
         /\ Len(chan) = Len(Sends) - 1

\* C6: with a packet limit n (0 and 1 included) and the flag never telling the
\* loop to leave, the engine makes exactly n send attempts and puts exactly n
\* results on the channel before it exits, and the budget never goes below
\* zero.
C6_LimitGivesExactlyNProbes ==
    (terminated /\ ~flag_stored /\ IsSome(ping.packets_limit))
      => LET n == Unwrap(ping.packets_limit)
         IN  /\ Len(Sends) <= n
             /\ Len(chan) <= n
             /\ (pc = "done" => Len(Sends) = n /\ Len(chan) = n)
             /\ Unwrap(packets_limit) >= 0

\* C7: the flag is read at the head of every iteration, before the probe is
\* built or sent: with the flag set the loop is left and no further probe is
\* sent, with the flag not set the iteration goes on to send a probe.
C7_SetFlagExitsUnsetFlagSends ==
    [][(pc = "loop" /\ pc' # "loop")
         => IF terminated
            THEN pc' = "done" /\ req' = req /\ oplog' = oplog
            ELSE pc' = "send" /\ req'.seq = req.seq + 1]_vars

\* the packet handed to send_to encodes the request template
SentBytesAreTemplate ==
    pc = "send"
      => /\ IcmpTp(buf) = EchoRequest
         /\ IcmpIdent(buf) = req.ident
         /\ IcmpPayload(buf) = Unwrap(req.payload)
         /\ IcmpSeq(buf) = req.seq
         /\ req.seq = Len(Sends) + 1

\* C8: the identifier and the 32-byte payload of the request template never
\* change; the sequence number goes up by exactly one before each send attempt
\* and at no other point, whether or not the attempt before or its recv
\* failed, so the k-th send attempt carries sequence k and the first carries 1.
C8_TemplateFixedSeqCountsSends ==
    /\ [](/\ \A k \in DOMAIN Sends : Sends[k].seq = k
          /\ SentBytesAreTemplate
          /\ Len(Unwrap(req.payload)) = DATA_SIZE)
    /\ [][/\ req'.ident = req.ident
          /\ req'.payload = req.payload
          /\ req'.seq # req.seq => (req'.seq = req.seq + 1 /\ pc = "loop" /\ pc' = "send")]_vars

\* the second send attempt, made after the recv of the first probe failed and
\* itself failing, carries sequence 2
C8_Witness ==
    /\ Len(oplog) = 3
    /\ oplog[1].op = "send_to" /\ oplog[1].ok /\ oplog[1].seq = 1
    /\ oplog[2].op = "recv" /\ ~oplog[2].ok
    /\ oplog[3].op = "send_to" /\ ~oplog[3].ok /\ oplog[3].seq = 2

\* the last socket call made for probe i
LastOpOf(i) ==
    LET ops == SelectSeq(oplog, LAMBDA e : e.seq = i)
    IN  Last(ops)

\* C9: every iteration puts exactly one result on the channel before the next
\* probe is sent, so the i-th result on the channel belongs to the i-th probe:
\* an Err(Send) or Err(Recv) sits at the position of the probe whose socket
\* call failed, an Ok at the position of a probe whose last recv succeeded.
C9_OneResultPerIteration ==
    /\ CASE pc \in {"send", "sleep", "loop", "done"} -> Len(chan) = Len(Sends)
         [] pc \in {"recv", "emit"}                  -> Len(chan) = Len(Sends) - 1
         [] OTHER -> Len(chan) \in {Len(Sends) - 1, Len(Sends)}
    /\ (pc = "emit") = IsSome(info)
    /\ \A i \in DOMAIN chan :
         LET op == LastOpOf(i)
         IN  CASE chan[i].tag = "Send" -> op.op = "send_to" /\ ~op.ok /\ chan[i].err = op.err
               [] chan[i].tag = "Recv" -> op.op = "recv" /\ ~op.ok /\ chan[i].err = op.err
               [] OTHER                -> op.op = "recv" /\ op.ok /\ IsSome(chan[i].info)

\* two iterations done: the reply of probe 1 at position 1, the recv error of
\* probe 2 at position 2
C9_Witness ==
    /\ Len(Sends) = 2 /\ Len(chan) = 2
    /\ IsOk(chan[1])
    /\ chan[2].tag = "Recv"
    /\ Last(oplog).op = "recv" /\ ~Last(oplog).ok /\ Last(oplog).seq = 2

\* the ICMP header of the datagram in buf
ReceivedIcmp == IcmpParse(Unwrap(IpPayload(IPV4Parse(buf).pkt))).pkt

\* C10: a received ICMP header of type EchoReply is accepted if and only if
\* its payload equals the payload of the request template: an equal payload
\* ends the iteration with an Ok result of type EchoReply, another payload
\* gives no result and leaves the engine about to call recv again in the same
\* iteration.
C10_EchoReplyOwnedIffPayloadEqual ==
    (JustReceived /\ Len(chan) = Len(Sends) - 1 /\ ~Unparsable(buf)
        /\ IcmpTp(ReceivedIcmp) = EchoReply)
      => IF IcmpPayload(ReceivedIcmp) = Unwrap(req.payload)
         THEN /\ pc = "emit"
              /\ IsSome(info) /\ IsOk(Unwrap(info))
              /\ Unwrap(Unwrap(info).info).icmp_type = EchoReply
              /\ Unwrap(Unwrap(info).info).icmp_seq = IcmpSeq(ReceivedIcmp)
         ELSE /\ pc = "recv"
              /\ info = None

\* a session of 2 probes ended by the budget in which every probe took two
\* recv calls before its EchoReply was accepted: 2 sends, 4 recvs, 2 Ok
C10_Witness ==
    /\ pc = "done"
    /\ ping.packets_limit = Some(2)
    /\ Len(Sends) = 2 /\ Len(Recvs) = 4 /\ Len(chan) = 2
    /\ \A k \in DOMAIN oplog : oplog[k].ok
    /\ \A i \in DOMAIN chan :
         /\ IsOk(chan[i])
         /\ Unwrap(chan[i].info).icmp_type = EchoReply
         /\ Unwrap(chan[i].info).icmp_seq = i
         /\ Unwrap(chan[i].info).time = 2

\* a datagram has just been received in an iteration that has not yet put its
\* result on the channel, and it parses down to an ICMP header
ReceivedHeader ==
    /\ JustReceived
    /\ Len(chan) = Len(Sends) - 1
    /\ ~Unparsable(buf)

\* the identifier of the datagram embedded in a TimeExceeded message, when
\* the embedded bytes parse as IPv4 and then as ICMP
EmbeddedIdent(icmp) ==
    LET ip == IPV4Parse(IcmpPayload(icmp))
    IN  IF ~ip.ok \/ ~IsSome(IpPayload(ip.pkt)) THEN None
        ELSE LET inner == IcmpParse(Unwrap(IpPayload(ip.pkt)))
             IN  IF inner.ok THEN Some(IcmpIdent(inner.pkt)) ELSE None

\* C11: a received ICMP header of type TimeExceeded is accepted if and only
\* if its payload parses as an IPv4 header whose payload parses as an ICMP
\* header with the identifier of the request; when an inner parse fails the
\* packet is rejected as not ours without a panic (the engine reads on), and
\* the embedded payload plays no part.
C11_TimeExceededOwnedIffEmbeddedIdent ==
    (ReceivedHeader /\ IcmpTp(ReceivedIcmp) = TimeExceeded)
      => IF EmbeddedIdent(ReceivedIcmp) = Some(req.ident)
         THEN /\ pc = "emit"
              /\ IsSome(info) /\ IsOk(Unwrap(info))
              /\ Unwrap(Unwrap(info).info).icmp_type = TimeExceeded
         ELSE /\ pc = "recv"
              /\ info = None

\* C12: a received EchoRequest whose payload and identifier equal those of
\* the request template (the own probe looped back) is rejected: no result,
\* the engine reads on; when the matching EchoReply is the next datagram the
\* iteration ends with one Ok result, of type EchoReply.
C12_LoopedBackRequestSkipped ==
    /\ []((ReceivedHeader /\ IcmpTp(ReceivedIcmp) = EchoRequest
              /\ IcmpPayload(ReceivedIcmp) = Unwrap(req.payload)
              /\ IcmpIdent(ReceivedIcmp) = req.ident)
            => (pc = "recv" /\ info = None))
    /\ [][(pc = "recv" /\ JustReceived /\ buf = OwnRequest(req)
              /\ oplog' # oplog /\ buf' = MatchingReply(req, req.seq))
            => /\ pc' = "emit"
               /\ chan' = chan /\ Len(chan) = Len(Sends) - 1
               /\ IsSome(info') /\ IsOk(Unwrap(info'))
               /\ Unwrap(Unwrap(info').info).icmp_type = EchoReply
               /\ Unwrap(Unwrap(info').info).icmp_seq = req.seq]_vars

\* the own request has come back and was skipped, then the matching reply
\* gave the one result of the probe
C12_Witness ==
    /\ pc = "sleep"
    /\ Len(Sends) = 1 /\ Len(Recvs) = 2 /\ Len(chan) = 1
    /\ buf = MatchingReply(req, 1)
    /\ IsOk(chan[1])
    /\ Unwrap(chan[1].info).icmp_type = EchoReply
    /\ Unwrap(chan[1].info).time = 2

\* C13: accepting other ICMP types by default conceals no reply: a datagram
\* of another type meant for another process that arrives first does not end
\* the iteration, so the matching EchoReply delivered after it is the Ok
\* result of that probe's iteration.
C13_DefaultAcceptConcealsNoReply ==
    /\ []((ReceivedHeader /\ buf = MatchingReply(req, req.seq))
            => /\ pc = "emit"
               /\ IsSome(info) /\ IsOk(Unwrap(info))
               /\ Unwrap(Unwrap(info).info).icmp_type = EchoReply
               /\ Unwrap(Unwrap(info).info).icmp_seq = req.seq)
    /\ [][(pc = "recv" /\ oplog' # oplog /\ Last(oplog').ok
              /\ buf' = ForeignUnreachable(req))
            => (pc' = "recv" /\ info' = None)]_vars

-----------------------------------------------------------------------------
\* Observations of the aggregator

\* the results packet.recv() has handed to the aggregator so far
Consumed == SubSeq(chan, 1, consumed)

IsReply(r) == IsOk(r) /\ Unwrap(r.info).icmp_type = EchoReply

\* C14: after the aggregator has consumed any sequence of results, transmitted
\* is the number of results consumed, Ok and Err alike, and received is the
\* number of consumed Ok results of type EchoReply.
C14_TransmittedCountsEveryResult ==
    /\ transmitted = consumed
    /\ received = Len(SelectSeq(Consumed, IsReply))

\* C15: the aggregator leaves its receive loop only when the producer has
\* closed the channel and the channel is drained, so every result the engine
\* emitted, also one that follows an Err, is consumed before the summary.
C15_LoopLeftOnlyWhenClosedAndDrained ==
    spc # "recv" => (~tx_open /\ consumed = Len(chan))

\* C16: in every state of the aggregator, whatever Ok and Err results it has
\* consumed, received <= transmitted and the number of round-trip samples is
\* transmitted.
C16_ReceivedLeTransmittedEqSamples ==
    /\ received <= transmitted
    /\ Len(rtt) = transmitted

\* the aggregator has consumed an accepted TimeExceeded and an echo reply
C16_Witness ==
    /\ consumed = 2
    /\ IsOk(chan[1]) /\ Unwrap(chan[1].info).icmp_type = TimeExceeded
    /\ IsReply(chan[2])
    /\ transmitted = 2 /\ received = 1 /\ Len(rtt) = 2

\* C17: with both threads scheduled fairly, once the engine has left
\* ping_loop (on the flag or on the budget) and so dropped its Sender, the
\* aggregator eventually leaves its receive loop and emits the summary.
C17_ShutdownReachesSummary ==
    (pc = "done" /\ ~tx_open) ~> (spc = "done" /\ IsSome(summary))

-----------------------------------------------------------------------------
\* Observations of the packet library

PayloadBytes(q) == IF IsSome(q.payload) THEN Unwrap(q.payload) ELSE << >>

\* the packet that build has written into the first n bytes
Built == SliceTo(codec.out, codec.n)

\* C18: for every ICMP packet that IcmpBuilder::build produces (any type,
\* code, identifier, sequence, payload of even or odd length) the checksum
\* over the n written bytes is 0, so is_checksum_correct holds on the parsed
\* packet; with one checksum byte changed is_checksum_correct is false.
C18_BuiltChecksumVerifies ==
    /\ (codec.op = "build" /\ codec.step = "built" /\ codec.ok /\ ~codec.tampered)
         => checksum(Built) = 0
    /\ (codec.op = "build" /\ codec.step = "parsed")
         => (IsSome(codec.pkt) /\ codec.correct = ~codec.tampered)

\* a packet with a payload of odd length, built into a longer buffer that
\* held other bytes, was parsed again after one of its checksum bytes changed
C18_Witness ==
    /\ codec.op = "build" /\ codec.step = "parsed"
    /\ codec.tampered /\ ~codec.correct
    /\ Len(PayloadBytes(codec.q)) = 3
    /\ Len(codec.buf) > codec.n /\ codec.buf[1] = 255

\* the Internet checksum: the one's complement of the one's complement sum of
\* the big-endian 16-bit words, an odd last byte padded with a zero low byte
RECURSIVE RfcWordSum(_, _)
RfcWordSum(b, i) ==
    IF i > Len(b) THEN 0
    ELSE IF i = Len(b) THEN b[i] * 256
    ELSE (b[i] * 256 + b[i + 1]) + RfcWordSum(b, i + 2)
RECURSIVE RfcFold(_)
RfcFold(x) == IF x > 65535 THEN RfcFold((x % 65536) + (x \div 65536)) ELSE x
RfcChecksum(b) == 65535 - RfcFold(RfcWordSum(b, 1))

\* C19: for every byte buffer checksum returns the one's complement of the
\* folded sum of its big-endian 16-bit words, the last byte of a buffer of
\* odd length being the high byte of a word whose low byte is zero.
C19_ChecksumIsInternetChecksum ==
    (codec.op = "checksum" /\ codec.step = "summed")
      => codec.sum = RfcChecksum(codec.buf)

\* C20: for every builder q and every buffer of at least 8 + payload_len
\* bytes build returns n = 8 + payload_len and the first n bytes parse to the
\* type, code, identifier, sequence and payload of q, identifier and sequence
\* big-endian at offsets 4..5 and 6..7; on a shorter buffer build fails with
\* InvalidBufferSize.
C20_BuildParseRoundTrip ==
    /\ (codec.op = "build" /\ codec.step # "start")
         => IF Len(codec.buf) >= 8 + Len(PayloadBytes(codec.q))
            THEN /\ codec.ok
                 /\ codec.n = 8 + Len(PayloadBytes(codec.q))
                 /\ Len(codec.out) = Len(codec.buf)
                 /\ codec.out[5] = codec.q.ident \div 256
                 /\ codec.out[6] = codec.q.ident % 256
                 /\ codec.out[7] = codec.q.seq \div 256
                 /\ codec.out[8] = codec.q.seq % 256
            ELSE /\ ~codec.ok
                 /\ codec.err = "InvalidBufferSize"
    /\ (codec.op = "build" /\ codec.step = "parsed")
         => /\ IsSome(codec.pkt)
            /\ IcmpTp(Unwrap(codec.pkt)) = codec.q.tp
            /\ IcmpCode(Unwrap(codec.pkt)) = codec.q.code
            /\ IcmpIdent(Unwrap(codec.pkt)) = codec.q.ident
            /\ IcmpSeq(Unwrap(codec.pkt)) = codec.q.seq
            /\ IcmpPayload(Unwrap(codec.pkt)) = PayloadBytes(codec.q)

\* a builder with a payload was built into a longer buffer that held other
\* bytes and the packet parsed again
C20_Witness ==
    /\ codec.op = "build" /\ codec.step = "parsed" /\ ~codec.tampered
    /\ codec.q.ident = 2020 /\ codec.q.seq = 65280
    /\ PayloadBytes(codec.q) = <<1, 0, 255>>
    /\ Len(codec.buf) = codec.n + 3 /\ codec.buf[1] = 255

\* the packet of a builder with its checksum field zero: a function of the
\* builder alone
Unsummed(q) ==
    <<q.tp, q.code, 0, 0, q.ident \div 256, q.ident % 256, q.seq \div 256, q.seq % 256>>
        \o PayloadBytes(q)

\* C21: the first n = 8 + payload length bytes written by build depend on
\* the builder alone, whatever the buffer held before and whatever its
\* length; the checksum stored in them is the checksum of exactly those n
\* bytes taken with the field zero; the bytes from offset n on are unchanged.
C21_BuiltPrefixDependsOnBuilderOnly ==
    (codec.op = "build" /\ codec.step = "built" /\ codec.ok /\ ~codec.tampered)
      => /\ codec.n = Len(Unsummed(codec.q))
         /\ Built = [Unsummed(codec.q) EXCEPT
                        ![3] = checksum(Unsummed(codec.q)) \div 256,
                        ![4] = checksum(Unsummed(codec.q)) % 256]
         /\ Len(codec.out) = Len(codec.buf)
         /\ SliceFrom(codec.out, codec.n) = SliceFrom(codec.buf, codec.n)

\* a packet with an odd payload built into a longer buffer that held other
\* bytes everywhere, the checksum offsets included
C21_Witness ==
    /\ codec.op = "build" /\ codec.step = "built" /\ codec.ok /\ ~codec.tampered
    /\ PayloadBytes(codec.q) = <<255, 1, 0>>
    /\ Len(codec.buf) = codec.n + 3
    /\ codec.buf[3] = 3 /\ codec.buf[4] = 4 /\ codec.buf[codec.n + 1] = codec.n + 1

\* C22: IPV4Packet::parse fails with InvalidBufferSize exactly when the
\* buffer has fewer than 20 bytes; otherwise with InvalidVersion exactly when
\* the high nibble of byte 0 is not 4; otherwise with InvalidHeaderSize
\* exactly when the buffer is shorter than 4 * IHL; otherwise it succeeds and
\* the packet is the buffer.  Every call returns one of these four outcomes.
C22_IpParseOutcomeByLengthVersionIhl ==
    (codec.op = "ip_parse" /\ codec.step = "parsed")
      => IF Len(codec.buf) < 20
         THEN ~codec.ok /\ codec.err = "InvalidBufferSize" /\ codec.pkt = None
         ELSE IF codec.buf[1] \div 16 # 4
         THEN ~codec.ok /\ codec.err = "InvalidVersion" /\ codec.pkt = None
         ELSE IF Len(codec.buf) < 4 * (codec.buf[1] % 16)
         THEN ~codec.ok /\ codec.err = "InvalidHeaderSize" /\ codec.pkt = None
         ELSE codec.ok /\ codec.pkt = Some(codec.buf)

\* a buffer of 59 bytes with version 4 that declares a header of 60
C22_Witness ==
    /\ codec.op = "ip_parse" /\ codec.step = "parsed"
    /\ Len(codec.buf) = 59 /\ codec.buf[1] = 79
    /\ ~codec.ok /\ codec.err = "InvalidHeaderSize"

\* C23: for every ttl, protocol, source, destination and payload x that fits
\* the buffer, IPV4Builder::build writes a header with version 4 and IHL 5
\* and returns 20 + len(x); parsing the written bytes succeeds and yields the
\* same ttl, protocol, source and destination and a payload equal to x.
C23_IpBuildParseRoundTrip ==
    /\ (codec.op = "ip_build" /\ codec.step # "start"
            /\ Len(codec.buf) >= 20 + Len(codec.q.payload))
         => /\ codec.n = 20 + Len(codec.q.payload)
            /\ codec.out[1] = 69
    /\ (codec.op = "ip_build" /\ codec.step = "parsed")
         => /\ codec.ok /\ IsSome(codec.pkt)
            /\ IpTtl(Unwrap(codec.pkt)) = codec.q.ttl
            /\ IpProtocol(Unwrap(codec.pkt)) = codec.q.protocol
            /\ IpSourceIp(Unwrap(codec.pkt)) = codec.q.source
            /\ IpDestinationIp(Unwrap(codec.pkt)) = codec.q.dst
            /\ IpPayload(Unwrap(codec.pkt)) = Some(codec.q.payload)

\* the shutdown flag is raised and no later store lowers it
FlagRaised == terminated /\ flag_stored

\* C24: from the moment the shutdown flag is raised the engine completes at
\* most one more recv call and at most one more sleep before it leaves
\* ping_loop, whatever the socket delivers: a recv call that completes with
\* the flag raised does not leave the engine about to call recv again, and
\* the loop head reached with the flag raised leaves the loop.
C24_RaisedFlagBoundsRecvAndSleep ==
    [][FlagRaised
         => /\ (Len(Recvs') = Len(Recvs) + 1) => pc' # "recv"
            /\ (pc = "loop" /\ pc' # "loop") => pc' = "done"]_vars

\* the sequence number of the datagram embedded in a TimeExceeded message,
\* when the embedded bytes parse as IPv4 and then as ICMP
EmbeddedSeq(icmp) ==
    LET ip == IPV4Parse(IcmpPayload(icmp))
    IN  IF ~ip.ok \/ ~IsSome(IpPayload(ip.pkt)) THEN None
        ELSE LET inner == IcmpParse(Unwrap(IpPayload(ip.pkt)))
             IN  IF inner.ok THEN Some(IcmpSeq(inner.pkt)) ELSE None

\* C25: the PacketInfo emitted for an accepted TimeExceeded datagram carries
\* as icmp_seq the sequence field of the ICMP header embedded in the message
\* (outer ICMP, embedded IPv4, embedded ICMP), not the bytes at the sequence
\* offset of the outer header.
C25_TimeExceededSeqIsEmbeddedSeq ==
    (pc = "emit" /\ IsSome(info) /\ IsOk(Unwrap(info))
        /\ Unwrap(Unwrap(info).info).icmp_type = TimeExceeded)
      => Some(Unwrap(Unwrap(info).info).icmp_seq) = EmbeddedSeq(ReceivedIcmp)

\* the reading of the clock just before the send_to call of the current
\* probe: every socket call takes one tick, so it is the number of socket
\* calls made before that send_to
ClockBeforeLastSend ==
    LET k == CHOOSE i \in DOMAIN oplog :
                 /\ oplog[i].op = "send_to"
                 /\ \A j \in DOMAIN oplog : oplog[j].op = "send_to" => j <= i
    IN  k - 1

\* C26: within one probe the RTT start t0 is taken before the send_to call
\* and is not taken again when a received datagram is rejected, so the time
\* of an emitted PacketInfo spans from just before the send to the return of
\* the recv that delivered the accepted datagram.
C26_RttSpansFromBeforeSend ==
    /\ []((pc = "emit" /\ IsSome(info) /\ IsOk(Unwrap(info)))
            => Unwrap(Unwrap(info).info).time = clock - ClockBeforeLastSend)
    /\ [][(pc = "recv" /\ pc' \in {"recv", "emit"}) => now' = now]_vars

\* C27: whenever at least one probe was run the summary is defined: when the
\* aggregator has left its loop after consuming at least one result, the
\* list of RTT samples is not empty and min, max and average are computed
\* without a panic, also when every probe ended in Err(Send) or Err(Recv).
C27_SummaryDefinedAfterOneResult ==
    (spc \in {"summary", "done", "panicked"} /\ consumed >= 1)
      => /\ rtt # << >>
         /\ spc # "panicked"
         /\ spc = "done" => IsSome(summary)

\* C28: with the engine and the aggregator on the two ends of the channel, a
\* failure of send_to or recv makes neither thread panic: the aggregator keeps
\* its Receiver until the engine has dropped the Sender, every stats.send of
\* the engine succeeds, for the Err result and for every later one, and the
\* aggregator does not panic after it has taken an Err result.
C28_FailurePanicsNeitherThread ==
    /\ [](tx_open => rx_open)
    /\ []((spc = "panicked") => \A i \in 1..consumed : IsOk(chan[i]))
    /\ [][(pc = "emit" /\ pc' # "emit")
            => (chan' = Append(chan, Unwrap(info)) /\ rx_open)]_vars

\* C29: no two send attempts of one engine carry the same sequence number,
\* for any number of probes of a session without a budget, more than 2^16 of
\* them included: the 16-bit counter incremented before every send neither
\* repeats a value nor aborts the engine.
C29_SequenceNeverRepeatsNorAborts ==
    /\ ~sent.repeated
    /\ pc # "panicked"

=============================================================================
